---------------------------- MODULE Spec2Model ----------------------------
(***************************************************************************)
(* Model of src/main.py: the line segmenter split_string_into_segments and *)
(* the record assembler parse_json of the lease-schedule cleaner.          *)
(*                                                                         *)
(* A Python string is a sequence of one-character strings; the only        *)
(* whitespace character of the model is the space.  A Python dict with     *)
(* integer keys is a function whose domain is a finite set of naturals.    *)
(***************************************************************************)
EXTENDS Integers, Sequences, FiniteSets, TLC

VARIABLES
    pc,                 \* position of parse_json: "next" (between entries),
                        \* "loop", "done", "crashed" (an uncaught error);
                        \* of the segmenter harness: "call", "returned"
    todo,               \* schedule entries of root not yet visited
    root,               \* entry["entryText"] of every entry already rewritten
    entry_text,         \* lines of the current entry already read by the loop
    parsed_entry_text,  \* dict built for the current entry
    is_note,            \* flag of the current entry
    is_failed_parse,    \* flag of the current entry
    calls,              \* calls of split_string_into_segments so far
    logged,             \* logging.error calls so far
    s_in,               \* segmenter harness: the argument s
    s_out               \* segmenter harness: the result of the call

vars == <<pc, todo, root, entry_text, parsed_entry_text, is_note,
          is_failed_parse, calls, logged, s_in, s_out>>

-----------------------------------------------------------------------------
(* Bounds of the model *)

MaxLines == 3        \* lines of one entry (specification Spec)

BatchEntries == 2    \* entries of the collection (specification SpecBatch)

BatchLines == 2      \* lines of one entry (specification SpecBatch)

MaxLead == 2         \* leading spaces of a generated line (SpecSeg)

MaxText == 76        \* text characters of a generated line (SpecSeg)

MaxTrail == 30       \* trailing spaces of a generated line (SpecSeg)

-----------------------------------------------------------------------------
(* Python string primitives *)

SP == " "

Spaces(n) == [i \in 1..n |-> SP]

SetMin(S) == CHOOSE x \in S : \A y \in S : x <= y

SetMax(S) == CHOOSE x \in S : \A y \in S : x >= y

\* str.strip(): the string without its leading and trailing whitespace
Strip(s) ==
    LET ink == {i \in 1..Len(s) : s[i] # SP}
    IN  IF ink = {} THEN <<>> ELSE SubSeq(s, SetMin(ink), SetMax(ink))

\* str.isspace(): at least one character, and all of them whitespace
IsSpace(s) == Len(s) > 0 /\ \A i \in 1..Len(s) : s[i] = SP

\* str.endswith(suf)
EndsWith(s, suf) ==
    /\ Len(s) >= Len(suf)
    /\ SubSeq(s, Len(s) - Len(suf) + 1, Len(s)) = suf

\* str.startswith(pre)
StartsWith(s, pre) == Len(s) >= Len(pre) /\ SubSeq(s, 1, Len(pre)) = pre

\* sub in s
Contains(s, sub) ==
    \E k \in 0..(Len(s) - Len(sub)) : SubSeq(s, k + 1, k + Len(sub)) = sub

\* the None of an entryText list: no string equals it
None == <<"None">>

-----------------------------------------------------------------------------
(* split_string_into_segments *)

COLUMN_INDICES == <<0, 16, 46, 62, 73>>

FIST_COLUMN_SIGNATURES ==
    { <<"b","l","u","e"," ","(","p","a","r","t"," ","o","f",")">>,
      <<"p","l","a","n"," ","1">>,
      <<"p","l","a","n">>,
      <<"o","f">>,
      <<")">>,
      <<"b","l","u","e">>,
      <<"o","f",")">> }

\* COLUMN_INDICES[n] of the source, whose lists count from 0
ColumnIndex(n) == COLUMN_INDICES[n + 1]

\* Normalize with the overflow cut 2 characters short of the source's 3
NormalizeCutsTwo(s) ==
    IF Len(s) = 72 THEN <<SP>> \o s
    ELSE IF Len(s) > 73 THEN SubSeq(s, 1, Len(s) - 2)
    ELSE s

\* the two edge cases that rewrite s before it is classified
Normalize(s) ==
    IF Len(s) = 72 THEN <<SP>> \o s
    ELSE IF Len(s) > 73 THEN SubSeq(s, 1, Len(s) - 3)
    ELSE s

\* Partition with every closed zone one character short
RECURSIVE PartitionShortZones(_, _)
PartitionShortZones(s, n) ==
    IF n >= Len(COLUMN_INDICES) - 1 THEN <<>>
    ELSE IF Len(s) <= ColumnIndex(n + 1)
         THEN << SubSeq(s, ColumnIndex(n) + 1, Len(s)) >>
         ELSE << SubSeq(s, ColumnIndex(n) + 1, ColumnIndex(n + 1) - 1) >>
              \o PartitionShortZones(s, n + 1)

\* the loop "for n in range(len(COLUMN_INDICES)-1)", from iteration n on
RECURSIVE Partition(_, _)
Partition(s, n) ==
    IF n >= Len(COLUMN_INDICES) - 1 THEN <<>>
    ELSE IF Len(s) <= ColumnIndex(n + 1)
         THEN << SubSeq(s, ColumnIndex(n) + 1, Len(s)) >>
         ELSE << SubSeq(s, ColumnIndex(n) + 1, ColumnIndex(n + 1)) >>
              \o Partition(s, n + 1)

Returned(segs) == [ok |-> TRUE, segs |-> segs, msg |-> ""]

Raised(msg) == [ok |-> FALSE, segs |-> <<>>, msg |-> msg]

\* Shorter with the third-column test "<= 30" in place of "< 30"
ShorterInclusive(s) ==
    LET s_stripped == Strip(s)
    IN  IF EndsWith(s, Spaces(27))
        THEN Returned(<< <<>>, s_stripped >>)
        ELSE IF EndsWith(s, Spaces(10))
        THEN IF Len(s_stripped) <= 30
             THEN Returned(<< <<>>, <<>>, s_stripped >>)
             ELSE Returned(<< <<>>, s_stripped >>)
        ELSE IF Len(s) > 46
        THEN Raised("Cannot handle this case yet. Contains either columns 1-3 or 2-4")
        ELSE Raised("Cannot handle this case yet")

\* the branch for the lines that are neither full width nor a known literal
Shorter(s) ==
    LET s_stripped == Strip(s)
    IN  IF EndsWith(s, Spaces(27))
        THEN Returned(<< <<>>, s_stripped >>)
        ELSE IF EndsWith(s, Spaces(10))
        THEN IF Len(s_stripped) < 30
             THEN Returned(<< <<>>, <<>>, s_stripped >>)
             ELSE Returned(<< <<>>, s_stripped >>)
        ELSE IF Len(s) > 46
        THEN Raised("Cannot handle this case yet. Contains either columns 1-3 or 2-4")
        ELSE Raised("Cannot handle this case yet")

\* the classification of the normalized line
Classify(s) ==
    IF Len(s) = 73 \/ s \in FIST_COLUMN_SIGNATURES
    THEN Returned(Partition(s, 0))
    ELSE Shorter(s)

split_string_into_segments(s) == Classify(Normalize(s))

-----------------------------------------------------------------------------
(* parse_json: the dict updates of the loop body *)

CANCELLED_ON == <<"C","A","N","C","E","L","L","E","D"," ","o","n">>

NOTE == <<"N","O","T","E">>

EmptyDict == <<>>

\* "for i, line_segment in enumerate(line_segments)": a segment that isspace()
\* is skipped, every other one is stripped and set or appended at key i
MergeSegments(dict, segs) ==
    LET kept == {i \in 0..(Len(segs) - 1) : ~IsSpace(segs[i + 1])}
    IN  [k \in (DOMAIN dict) \cup kept |->
            IF k \notin kept THEN dict[k]
            ELSE IF k \in DOMAIN dict
                 THEN dict[k] \o <<SP>> \o Strip(segs[k + 1])
                 ELSE Strip(segs[k + 1])]

\* StoreCancelled as "parsed_entry_text = {0: line}": the other keys are lost
StoreCancelledAlone(dict, line) == [k \in {0} |-> line]

\* parsed_entry_text[0] = line
StoreCancelled(dict, line) ==
    [k \in (DOMAIN dict) \cup {0} |-> IF k = 0 THEN line ELSE dict[k]]

\* NoteIndex as "len(keys)": right only while the keys have no gap
NoteIndexByCount(dict) == Cardinality(DOMAIN dict)

\* the index of a new note: max(keys) + 1, or 0 for the empty dict
NoteIndex(dict) ==
    IF DOMAIN dict # {} THEN SetMax(DOMAIN dict) + 1 ELSE 0

\* parsed_entry_text[index] = line.strip()
StartNote(dict, line) ==
    [k \in (DOMAIN dict) \cup {NoteIndex(dict)} |->
        IF k = NoteIndex(dict) THEN Strip(line) ELSE dict[k]]

\* parsed_entry_text[max_index] += " " + line.strip()
ContinueNote(dict, line) ==
    [dict EXCEPT ![SetMax(DOMAIN dict)] = @ \o <<SP>> \o Strip(line)]

\* the try block raises: the segmenter raises, or the assert on 4 columns fails
SegmentFails(line) ==
    LET r == split_string_into_segments(line)
    IN  ~r.ok \/ Len(r.segs) > 4

\* Written without the else branch: the partial dict of a failed entry is kept
WrittenAlways(dict, failed) == dict

\* what is written back to entry["entryText"] after the loop
Written(dict, failed) == IF ~failed THEN dict ELSE EmptyDict

-----------------------------------------------------------------------------
(* parse_json: one action per branch of the loop body *)

Read(line) == entry_text' = Append(entry_text, line)

\* the entry has another line
More(limit) == Len(entry_text) < limit

\* "if line is None: continue"
SkipNull(line) ==
    /\ pc = "loop"
    /\ line = None
    /\ Read(line)
    /\ UNCHANGED <<s_in, s_out, pc, todo, root, parsed_entry_text,
                   is_note, is_failed_parse, calls, logged>>

\* "if 'CANCELLED on' in line"
Cancelled(line) ==
    /\ pc = "loop"
    /\ line # None
    /\ Contains(line, CANCELLED_ON)
    /\ Read(line)
    /\ parsed_entry_text' = StoreCancelled(parsed_entry_text, line)
    /\ UNCHANGED <<s_in, s_out, pc, todo, root, is_note, is_failed_parse,
                   calls, logged>>

\* the try block runs to its end
SegmentOk(line) ==
    /\ pc = "loop"
    /\ line # None
    /\ ~Contains(line, CANCELLED_ON)
    /\ ~StartsWith(line, NOTE) /\ ~is_note
    /\ ~SegmentFails(line)
    /\ Read(line)
    /\ calls' = calls + 1
    /\ parsed_entry_text' =
           MergeSegments(parsed_entry_text, split_string_into_segments(line).segs)
    /\ UNCHANGED <<s_in, s_out, pc, todo, root, is_note, is_failed_parse,
                   logged>>

\* the except block
SegmentFail(line) ==
    /\ pc = "loop"
    /\ line # None
    /\ ~Contains(line, CANCELLED_ON)
    /\ ~StartsWith(line, NOTE) /\ ~is_note
    /\ SegmentFails(line)
    /\ Read(line)
    /\ calls' = calls + 1
    /\ is_failed_parse' = TRUE
    /\ logged' = logged + 1
    /\ UNCHANGED <<s_in, s_out, pc, todo, root, parsed_entry_text, is_note>>

\* "elif starts_with_note"
NoteStart(line) ==
    /\ pc = "loop"
    /\ line # None
    /\ ~Contains(line, CANCELLED_ON)
    /\ StartsWith(line, NOTE)
    /\ Read(line)
    /\ is_note' = TRUE
    /\ parsed_entry_text' = StartNote(parsed_entry_text, line)
    /\ UNCHANGED <<s_in, s_out, pc, todo, root, is_failed_parse, calls, logged>>

\* the final else; max() of no keys raises outside the try block
NoteContinue(line) ==
    /\ pc = "loop"
    /\ line # None
    /\ ~Contains(line, CANCELLED_ON)
    /\ ~StartsWith(line, NOTE) /\ is_note
    /\ Read(line)
    /\ IF DOMAIN parsed_entry_text = {}
       THEN pc' = "crashed" /\ UNCHANGED parsed_entry_text
       ELSE /\ pc' = pc
            /\ parsed_entry_text' = ContinueNote(parsed_entry_text, line)
    /\ UNCHANGED <<s_in, s_out, todo, root, is_note, is_failed_parse,
                   calls, logged>>

\* after the loop: entry["entryText"] is replaced
Finish ==
    /\ pc = "loop"
    /\ root' = Append(root, Written(parsed_entry_text, is_failed_parse))
    /\ pc' = "next"
    /\ UNCHANGED <<s_in, s_out, todo, entry_text, parsed_entry_text,
                   is_note, is_failed_parse, calls, logged>>

\* StartEntry with is_failed_parse created once, before the loop over entries
StartEntryKeepsFailed ==
    /\ pc = "next"
    /\ todo > 0
    /\ todo' = todo - 1
    /\ pc' = "loop"
    /\ entry_text' = <<>>
    /\ parsed_entry_text' = EmptyDict
    /\ is_note' = FALSE
    /\ UNCHANGED <<s_in, s_out, root, calls, logged, is_failed_parse>>

\* StartEntry with is_note created once, before the loop over entries
StartEntryKeepsNote ==
    /\ pc = "next"
    /\ todo > 0
    /\ todo' = todo - 1
    /\ pc' = "loop"
    /\ entry_text' = <<>>
    /\ parsed_entry_text' = EmptyDict
    /\ is_failed_parse' = FALSE
    /\ UNCHANGED <<s_in, s_out, root, calls, logged, is_note>>

\* the next entry: its dict and flags are created
StartEntry ==
    /\ pc = "next"
    /\ todo > 0
    /\ todo' = todo - 1
    /\ pc' = "loop"
    /\ entry_text' = <<>>
    /\ parsed_entry_text' = EmptyDict
    /\ is_note' = FALSE
    /\ is_failed_parse' = FALSE
    /\ UNCHANGED <<s_in, s_out, root, calls, logged>>

\* "return root_json"
Return ==
    /\ pc = "next"
    /\ todo = 0
    /\ pc' = "done"
    /\ UNCHANGED <<s_in, s_out, todo, root, entry_text,
                   parsed_entry_text, is_note, is_failed_parse, calls, logged>>

-----------------------------------------------------------------------------
(* parse_json: the loop over the lines of one entry, as a function *)

\* the locals as "for line in entry_text" starts
FreshLocals ==
    [dict |-> EmptyDict, note |-> FALSE, failed |-> FALSE, crashed |-> FALSE]

\* one iteration of "for line in entry_text"
LineStep(st, line) ==
    IF st.crashed \/ line = None THEN st
    ELSE IF Contains(line, CANCELLED_ON)
    THEN [st EXCEPT !.dict = StoreCancelled(st.dict, line)]
    ELSE IF ~StartsWith(line, NOTE) /\ ~st.note
    THEN IF SegmentFails(line)
         THEN [st EXCEPT !.failed = TRUE]
         ELSE [st EXCEPT !.dict =
                  MergeSegments(st.dict, split_string_into_segments(line).segs)]
    ELSE IF StartsWith(line, NOTE)
    THEN [st EXCEPT !.note = TRUE, !.dict = StartNote(st.dict, line)]
    ELSE IF DOMAIN st.dict = {}
    THEN [st EXCEPT !.crashed = TRUE]
    ELSE [st EXCEPT !.dict = ContinueNote(st.dict, line)]

\* the locals after the lines of entry_text, read in order
RECURSIVE RunLines(_, _)
RunLines(st, lines) ==
    IF lines = <<>> THEN st
    ELSE RunLines(LineStep(st, Head(lines)), Tail(lines))

\* entry["entryText"] after parse_json, for an entry with these lines
ParsedEntry(lines) ==
    LET st == RunLines(FreshLocals, lines)
    IN  Written(st.dict, st.failed)

-----------------------------------------------------------------------------
(* The lines of the checked entries *)

Pad(w, n) == w \o Spaces(n - Len(w))

\* all four columns
FullA ==
    Pad(<<"0","9">>, 16) \o Pad(<<"4","7"," ","C","u","b","a">>, 30)
        \o Pad(<<"9","9"," ","y","r","s">>, 16) \o Pad(<<"E","G","L">>, 11)

\* columns 1 and 3, the other two zones all spaces
FullB ==
    Pad(<<"b","l","u","e">>, 16) \o Spaces(30)
        \o Pad(<<"f","r","o","m">>, 16) \o Spaces(11)

LongTrail == <<"S","t">> \o Spaces(27)

MedTrail == <<"1",".","1">> \o Spaces(10)

LiteralOf == <<"o","f">>

\* 17 characters, no trailing spaces
RaiseShort ==
    <<"c","o","n","t","i","n","u","a","t","i","o","n"," ","o","f"," ","A">>

\* 50 characters, no trailing spaces
RaiseLong == Pad(<<"0","9">>, 16) \o Pad(<<"4","7">>, 30) \o <<"f","r","o","m">>

NoteA == <<"N","O","T","E",":"," ","A">>

NoteB == <<"N","O","T","E",":"," ","B">>

Cancel73 == Pad(<<"I","t","e","m"," ">> \o CANCELLED_ON \o <<" ","1">>, 73)

CancelNote == NOTE \o <<SP>> \o CANCELLED_ON

Lines ==
    { None, FullA, FullB, LongTrail, MedTrail, LiteralOf, RaiseShort,
      RaiseLong, NoteA, NoteB, Cancel73, CancelNote }

BatchCatalog == { None, LiteralOf, <<"x">>, NOTE, CANCELLED_ON }

-----------------------------------------------------------------------------
(* Specification Spec: one entry, lines from Lines *)

InitLocals ==
    /\ root = <<>>
    /\ entry_text = <<>>
    /\ parsed_entry_text = EmptyDict
    /\ is_note = FALSE
    /\ is_failed_parse = FALSE
    /\ calls = 0
    /\ logged = 0

Init ==
    /\ pc = "next"
    /\ todo = 1
    /\ InitLocals
    /\ s_in = <<>>
    /\ s_out = Raised("not called")

Next ==
    \/ \E line \in Lines : More(MaxLines) /\ SkipNull(line)
    \/ \E line \in Lines : More(MaxLines) /\ Cancelled(line)
    \/ \E line \in Lines : More(MaxLines) /\ SegmentOk(line)
    \/ \E line \in Lines : More(MaxLines) /\ SegmentFail(line)
    \/ \E line \in Lines : More(MaxLines) /\ NoteStart(line)
    \/ \E line \in Lines : More(MaxLines) /\ NoteContinue(line)
    \/ Finish
    \/ StartEntry
    \/ Return

Spec == Init /\ [][Next]_vars

(* Specification SpecBatch: a collection of entries, lines from BatchCatalog *)

InitBatch ==
    /\ pc = "next"
    /\ todo = BatchEntries
    /\ InitLocals
    /\ s_in = <<>>
    /\ s_out = Raised("not called")

NextBatch ==
    \/ \E line \in BatchCatalog : More(BatchLines) /\ SkipNull(line)
    \/ \E line \in BatchCatalog : More(BatchLines) /\ Cancelled(line)
    \/ \E line \in BatchCatalog : More(BatchLines) /\ SegmentOk(line)
    \/ \E line \in BatchCatalog : More(BatchLines) /\ SegmentFail(line)
    \/ \E line \in BatchCatalog : More(BatchLines) /\ NoteStart(line)
    \/ \E line \in BatchCatalog : More(BatchLines) /\ NoteContinue(line)
    \/ Finish
    \/ StartEntry
    \/ Return

SpecBatch == InitBatch /\ [][NextBatch]_vars

-----------------------------------------------------------------------------
(* Specification SpecSeg: split_string_into_segments called on one line *)

Letters == <<"a", "b", "c">>

\* n characters starting and ending with a letter, a space at every 6th place
Text(n) ==
    [p \in 1..n |-> IF p % 6 = 0 /\ p < n THEN SP ELSE Letters[(p % 3) + 1]]

GenLine(lead, n, trail) == Spaces(lead) \o Text(n) \o Spaces(trail)

SegLines ==
    { GenLine(lead, n, trail) :
          lead \in 0..MaxLead, n \in 0..MaxText, trail \in 0..MaxTrail }
    \cup FIST_COLUMN_SIGNATURES
    \cup { w \o Spaces(k) : w \in FIST_COLUMN_SIGNATURES, k \in {10, 27, 59} }

InitSeg ==
    /\ pc = "call"
    /\ todo = 0
    /\ InitLocals
    /\ s_in \in SegLines
    /\ s_out = Raised("not called")

CallSegmenter ==
    /\ pc = "call"
    /\ pc' = "returned"
    /\ s_out' = split_string_into_segments(s_in)
    /\ UNCHANGED <<todo, root, entry_text, parsed_entry_text, is_note,
                   is_failed_parse, calls, logged, s_in>>

NextSeg == CallSegmenter

SpecSeg == InitSeg /\ [][NextSeg]_vars

-----------------------------------------------------------------------------
(* Vocabulary of the properties *)

\* a blank segment: the empty string, or whitespace only
Blank(seg) == \A i \in 1..Len(seg) : seg[i] = SP

\* the number of spaces a string ends with
TrailingRun(s) == Len(s) - SetMax({0} \cup {i \in 1..Len(s) : s[i] # SP})

\* the zones of the column layout, written out
LayoutZones(s) ==
    << SubSeq(s, 1, 16), SubSeq(s, 17, 46), SubSeq(s, 47, 62), SubSeq(s, 63, 73) >>

\* an entry has been written and its locals are still those of its loop
EntryWritten == pc \in {"next", "done"} /\ root # <<>>

LastWritten == root[Len(root)]

CancellationLine(line) == line # None /\ Contains(line, CANCELLED_ON)

NoteLine(line) ==
    line # None /\ ~Contains(line, CANCELLED_ON) /\ StartsWith(line, NOTE)

\* some line before position j opened a note
NoteBefore(lines, j) == \E h \in 1..(j - 1) : NoteLine(lines[h])

\* line j of the entry is handed to the segmenter
Segmented(lines, j) ==
    /\ lines[j] # None
    /\ ~CancellationLine(lines[j])
    /\ ~NoteLine(lines[j])
    /\ ~NoteBefore(lines, j)

\* line j of the entry is handed to the segmenter, which raises
RaisesAt(lines, j) ==
    Segmented(lines, j) /\ ~split_string_into_segments(lines[j]).ok

\* the loop reads this line in the step
Reads(line) == pc = "loop" /\ entry_text' = Append(entry_text, line)

-----------------------------------------------------------------------------
(* C1 *)

\* C1: all-or-nothing per entry.  When the loop of an entry has ended and
\* entryText is written: if some line handed to the segmenter raised,
\* entryText is the empty dict, wherever that line stands; otherwise it is
\* exactly the accumulated dict, the empty one included.
C1_AllOrNothing ==
    EntryWritten =>
        IF \E j \in 1..Len(entry_text) : RaisesAt(entry_text, j)
        THEN LastWritten = EmptyDict
        ELSE LastWritten = parsed_entry_text

\* a failing line between a cancellation line and a resolvable one: the
\* accumulated dict is not empty and the written one is
C1_Witness ==
    /\ EntryWritten
    /\ entry_text = <<Cancel73, RaiseLong, FullA>>
    /\ DOMAIN parsed_entry_text = 0..3
    /\ LastWritten = EmptyDict

-----------------------------------------------------------------------------
(* C2 *)

\* C2: blank zones contribute nothing.  In a step that segments a line with
\* success, every zone i whose segment is blank (empty or whitespace only)
\* leaves the dict as it was at i: no key i appears, and the value at an
\* existing key i is not changed.
C2_BlankZonesContributeNothing ==
    [][\A line \in Lines :
          (Reads(line) /\ calls' = calls + 1
                       /\ split_string_into_segments(line).ok)
          => LET segs == split_string_into_segments(line).segs
             IN  \A i \in 0..(Len(segs) - 1) :
                    Blank(segs[i + 1]) =>
                       /\ (i \in DOMAIN parsed_entry_text')
                             <=> (i \in DOMAIN parsed_entry_text)
                       /\ i \in DOMAIN parsed_entry_text =>
                             parsed_entry_text'[i] = parsed_entry_text[i]
      ]_vars

-----------------------------------------------------------------------------
(* C3 *)

\* the entry has no NOTE line, no cancellation line and no failing line
PlainEntry(lines) ==
    \A j \in 1..Len(lines) :
        lines[j] # None =>
            /\ ~Contains(lines[j], CANCELLED_ON)
            /\ ~StartsWith(lines[j], NOTE)
            /\ split_string_into_segments(lines[j]).ok

\* line j has content that is not blank in zone i
ZoneFilled(lines, j, i) ==
    /\ lines[j] # None
    /\ i < Len(split_string_into_segments(lines[j]).segs)
    /\ ~Blank(split_string_into_segments(lines[j]).segs[i + 1])

\* the stripped zone-i fragments of the first j lines, joined by one space
RECURSIVE JoinedZone(_, _, _)
JoinedZone(lines, j, i) ==
    IF j = 0 THEN <<>>
    ELSE LET before == JoinedZone(lines, j - 1, i)
             frag == Strip(split_string_into_segments(lines[j]).segs[i + 1])
         IN  IF ~ZoneFilled(lines, j, i) THEN before
             ELSE IF \E h \in 1..(j - 1) : ZoneFilled(lines, h, i)
                  THEN before \o <<SP>> \o frag
                  ELSE frag

\* C3: merge in line order with a single space.  For a written entry with no
\* NOTE line, no cancellation line and no failing line, the dict has key i
\* exactly when some line has content that is not blank in zone i, and the
\* value is the stripped fragments of those lines, in order, joined by one
\* space.
C3_MergeInLineOrder ==
    (EntryWritten /\ PlainEntry(entry_text)) =>
        /\ DOMAIN LastWritten =
              {i \in 0..3 : \E j \in 1..Len(entry_text) :
                                ZoneFilled(entry_text, j, i)}
        /\ \A i \in DOMAIN LastWritten :
              LastWritten[i] = JoinedZone(entry_text, Len(entry_text), i)

-----------------------------------------------------------------------------
(* C4 *)

\* C4: full-width segmentation.  For a line of exactly 73 characters the
\* segmenter does not raise and returns exactly the 4 zones at offsets
\* [0,16), [16,46), [46,62), [62,73); the zones concatenated are the line.
C4_FullWidth ==
    (pc = "returned" /\ Len(s_in) = 73) =>
        /\ s_out.ok
        /\ Len(s_out.segs) = 4
        /\ s_out.segs = LayoutZones(s_in)
        /\ s_out.segs[1] \o s_out.segs[2] \o s_out.segs[3] \o s_out.segs[4]
              = s_in

\* a line of 73 characters with text in every zone has been segmented
C4_Witness ==
    /\ pc = "returned"
    /\ Len(s_in) = 73
    /\ Len(s_out.segs) = 4
    /\ \A z \in 1..4 : ~Blank(s_out.segs[z])

-----------------------------------------------------------------------------
(* C5 *)

\* C5: trailing-space classification, first match wins.  Let n be the line
\* after normalization.  If n has 73 characters it is partitioned by the
\* column layout, whatever spaces it ends with.  If n is neither 73 long nor
\* a known literal: ending with at least 27 spaces gives ["", stripped];
\* otherwise ending with at least 10 spaces gives ["", "", stripped] when
\* the stripped length is below 30 and ["", stripped] when it is 30 or
\* more; otherwise the segmenter raises and returns no segmentation.
C5_TrailingSpaceClassification ==
    pc = "returned" =>
        LET n == Normalize(s_in)
            stripped == Strip(n)
        IN  IF Len(n) = 73
            THEN s_out.ok /\ s_out.segs = LayoutZones(n)
            ELSE n \notin FIST_COLUMN_SIGNATURES =>
                 IF TrailingRun(n) >= 27
                 THEN s_out.ok /\ s_out.segs = << <<>>, stripped >>
                 ELSE IF TrailingRun(n) >= 10
                 THEN /\ s_out.ok
                      /\ Len(stripped) < 30 =>
                            s_out.segs = << <<>>, <<>>, stripped >>
                      /\ Len(stripped) >= 30 =>
                            s_out.segs = << <<>>, stripped >>
                 ELSE ~s_out.ok /\ s_out.segs = <<>>

\* a line with a medium run of trailing spaces and exactly 30 characters of
\* text has been put in the second column
C5_Witness ==
    /\ pc = "returned"
    /\ Len(s_in) < 72
    /\ TrailingRun(s_in) \in 10..26
    /\ Len(Strip(s_in)) = 30
    /\ s_out.segs = << <<>>, Strip(s_in) >>

-----------------------------------------------------------------------------
(* C6 *)

\* C6: cancellation overrides segmentation.  A step that reads a line
\* containing "CANCELLED on" sets key 0 to the whole raw line, leaves every
\* other key as it was, calls the segmenter not once, and leaves both flags
\* as they were; the loop goes on.
C6_CancellationOverrides ==
    [][\A line \in Lines :
          (Reads(line) /\ CancellationLine(line)) =>
              /\ DOMAIN parsed_entry_text' = (DOMAIN parsed_entry_text) \cup {0}
              /\ parsed_entry_text'[0] = line
              /\ \A k \in (DOMAIN parsed_entry_text) \ {0} :
                    parsed_entry_text'[k] = parsed_entry_text[k]
              /\ calls' = calls
              /\ is_note' = is_note
              /\ is_failed_parse' = is_failed_parse
              /\ pc' = "loop"
      ]_vars

\* a 73-character cancellation line, then one that starts with NOTE, after a
\* full-width line: key 0 holds the last raw line, keys 1 to 3 remain
C6_Witness ==
    /\ pc = "loop"
    /\ entry_text = <<FullA, Cancel73, CancelNote>>
    /\ DOMAIN parsed_entry_text = 0..3
    /\ parsed_entry_text[0] = CancelNote
    /\ ~is_note
    /\ calls = 1

-----------------------------------------------------------------------------
(* C7 *)

\* the key a note gets, from the keys of the dict
FreshKey(dict) ==
    IF DOMAIN dict = {} THEN 0
    ELSE 1 + CHOOSE k \in DOMAIN dict : \A h \in DOMAIN dict : h <= k

\* a step that reads a line starting with NOTE adds the stripped line at the
\* fresh key and changes nothing else of the dict
NoteStepFresh ==
    \A line \in Lines :
        (Reads(line) /\ NoteLine(line)) =>
            /\ FreshKey(parsed_entry_text) \notin DOMAIN parsed_entry_text
            /\ DOMAIN parsed_entry_text' =
                  (DOMAIN parsed_entry_text) \cup {FreshKey(parsed_entry_text)}
            /\ parsed_entry_text'[FreshKey(parsed_entry_text)] = Strip(line)
            /\ \A k \in DOMAIN parsed_entry_text :
                  parsed_entry_text'[k] = parsed_entry_text[k]

\* a step that reads a later line, not null, not a cancellation and not
\* starting with NOTE, appends it stripped, after one space, at the largest key
NoteStepContinue ==
    \A line \in Lines :
        ( /\ Reads(line)
          /\ NoteBefore(entry_text, Len(entry_text) + 1)
          /\ line # None
          /\ ~CancellationLine(line)
          /\ ~NoteLine(line) ) =>
            /\ DOMAIN parsed_entry_text # {}
            /\ DOMAIN parsed_entry_text' = DOMAIN parsed_entry_text
            /\ \A k \in DOMAIN parsed_entry_text :
                  parsed_entry_text'[k] =
                     IF k = FreshKey(parsed_entry_text) - 1
                     THEN parsed_entry_text[k] \o <<SP>> \o Strip(line)
                     ELSE parsed_entry_text[k]

\* the entry ["NOTE: A", "continuation of A", "NOTE: B"]
NoteExample == <<NoteA, RaiseShort, NoteB>>

\* C7: monotonic note keys.  Every line starting with NOTE (not a
\* cancellation) is stored stripped at the largest key plus one (0 for the
\* empty dict) and overwrites nothing; every later line that is not null,
\* not a cancellation and does not start with NOTE is appended, stripped and
\* after one space, at the largest key.  The entry ["NOTE: A",
\* "continuation of A", "NOTE: B"] gives exactly the keys 0 and 1, holding
\* "NOTE: A continuation of A" and "NOTE: B".
C7_MonotonicNoteKeys ==
    /\ [][NoteStepFresh /\ NoteStepContinue]_vars
    /\ [](entry_text = NoteExample =>
             /\ DOMAIN parsed_entry_text = {0, 1}
             /\ parsed_entry_text[0] = NoteA \o <<SP>> \o RaiseShort
             /\ parsed_entry_text[1] = NoteB)

\* the example entry has been read and written
C7_Witness ==
    /\ EntryWritten
    /\ entry_text = NoteExample
    /\ DOMAIN LastWritten = {0, 1}
    /\ LastWritten[1] = NoteB

-----------------------------------------------------------------------------
(* C8 *)

\* C8: normalization anomalies.  A line of 72 characters segments as the
\* same line after one more leading space; a line of 76 characters segments
\* as the same line without its last 3 characters: the same zones, or both
\* calls raise.
C8_NormalizationAnomalies ==
    pc = "returned" =>
        /\ Len(s_in) = 72 =>
              s_out = split_string_into_segments(<<SP>> \o s_in)
        /\ Len(s_in) = 76 =>
              s_out = split_string_into_segments(SubSeq(s_in, 1, 73))

\* a line of 76 characters whose last 3 are text has been segmented
C8_Witness ==
    /\ pc = "returned"
    /\ Len(s_in) = 76
    /\ TrailingRun(s_in) = 0
    /\ s_out.ok
    /\ Len(s_out.segs) = 4

-----------------------------------------------------------------------------
(* C9 *)

\* a step whose line makes the segmenter raise sets the failed flag, leaves
\* the dict and the written entries as they were, and stays in the loop
FailureStep ==
    \A line \in BatchCatalog :
        (Reads(line) /\ RaisesAt(Append(entry_text, line), Len(entry_text) + 1))
        => /\ is_failed_parse'
           /\ parsed_entry_text' = parsed_entry_text
           /\ root' = root
           /\ pc' = "loop"

\* C9: line-level failures are contained in their entry.  A line that makes
\* the segmenter raise sets the failed flag, leaves the dict as it was, and
\* the loop goes on; no error escapes; when parse_json returns every entry
\* has been written; and what is written for an entry is what is written
\* for the same lines processed alone, from fresh locals.
C9_FailuresContained ==
    /\ [][FailureStep]_vars
    /\ [](pc # "crashed")
    /\ [](pc = "done" => Len(root) = BatchEntries)
    /\ [](EntryWritten => LastWritten = ParsedEntry(entry_text))

\* the run has ended after a logged failure; the last entry, read after it,
\* has a dict that is not empty
C9_Witness ==
    /\ pc = "done"
    /\ logged > 0
    /\ Len(root) = BatchEntries
    /\ root[1] = EmptyDict
    /\ LastWritten # EmptyDict
    /\ ~is_failed_parse

-----------------------------------------------------------------------------
(* C10 *)

\* C10: in every state of the loop, is_note implies that the dict is not
\* empty, and the continuation of a note never takes the maximum of no keys.
C10_NoteModeHasKeys ==
    /\ pc # "crashed"
    /\ is_note => DOMAIN parsed_entry_text # {}

\* a note has been continued in an entry that follows a written one
C10_Witness ==
    /\ pc = "loop"
    /\ root # <<>>
    /\ is_note
    /\ entry_text = <<NOTE, <<"x">>>>
    /\ parsed_entry_text[0] = NOTE \o <<SP, "x">>

=============================================================================
